---- MODULE Spec2Model ----
(***************************************************************************)
(* Model of app.py: the Telegram brain-tumour bot.                         *)
(*                                                                         *)
(* Strings are sequences of tokens and string concatenation is \o, so     *)
(* "ends in the disclaimer" and "embeds the question" are facts about the  *)
(* built text.  The dispatcher of python-telegram-bot runs one handler to  *)
(* completion before it takes the next update (concurrent_updates is left  *)
(* at its default), so one handler is in progress at a time; every awaited *)
(* Telegram call and every external call either returns or raises.         *)
(***************************************************************************)
EXTENDS Integers, Sequences, FiniteSets, TLC

VARIABLES
    env,                \* environment read at import: token, key, weights
    phase,              \* "load" | "main" | "polling" | "exited"
    dispatched,         \* TRUE once any update was handed to a handler
    user_data,          \* context.user_data['last_detected_tumors'], per user
    h,                  \* handler in progress: "idle", "start", "help", "image", "text"
    chat,               \* update.message.chat_id of the update in progress
    user,               \* update.effective_user of the update in progress
    pc,                 \* position inside the handler
    boxes,              \* result.boxes: class ids of the detections
    detected_tumors,    \* handle_image local
    names_for_chatbot,  \* handle_image local detected_tumor_names_for_chatbot
    no_tumor_case_detected, \* handle_image local
    caption_text,       \* handle_image local
    question,           \* update.message.text
    prompt,             \* handle_text local
    genOut,             \* outcome of the generation call: "none", "raise", "notext", "text"
    genText,            \* response.text when genOut = "text"
    attempts,           \* number of generate_content calls made by this handler run
    failedAt,           \* stage of handle_image that raised, "none" if none
    pre,                \* user_data[user] as it was when the update was dispatched
    reply,              \* last message text this handler run delivered to the user
    raised,             \* TRUE when an exception left the handler
    expected,           \* per user: labels of the most recent image analysis (history)
    lastByChat          \* per chat: labels of the most recent image analysis (history)

vars == << env, phase, dispatched, user_data, h, chat, user, pc, boxes,
           detected_tumors, names_for_chatbot, no_tumor_case_detected,
           caption_text, question, prompt, genOut, genText, attempts,
           failedAt, pre, reply, raised, expected, lastByChat >>

procVars == << env, phase, dispatched >>
whoVars == << h, chat, user, pre >>
imgLocals == << boxes, detected_tumors, names_for_chatbot, no_tumor_case_detected,
                caption_text >>
txtLocals == << question, prompt, genOut, genText, attempts >>
histVars == << expected, lastByChat >>

----------------------------------------------------------------------------
(* Bounds and input sets *)

MaxBoxes == 3           \* detections per image in the interpretation checks
MaxScanBoxes == 2       \* detections per image in the conversation model

Users == {"u1", "u2"}
Group == "group"
Chats == Users \cup {Group}  \* a private chat has its user's id
Questions == {"is this dangerous?", "what is an MRI?"}
GenTexts == {<<"Generated answer.">>, <<>>}
ClassIds == {0, 1, 2, 3, 4, 5}  \* 4 and 5 are outside both tables
ScanIds == {0, 1, 2, 4}
ChatScanIds == {0, 2}

RECURSIVE SeqsUpTo(_, _)
SeqsUpTo(S, n) ==
    IF n = 0 THEN {<<>>}
    ELSE LET shorter == SeqsUpTo(S, n - 1)
         IN  shorter \cup {Append(s, x) : s \in {t \in shorter : Len(t) = n - 1}, x \in S}

----------------------------------------------------------------------------
(* Configuration tables, app.py lines 29-42 *)

CLASS_NAMES ==
    (0 :> "Glioma Tumor") @@ (1 :> "Meningioma Tumor") @@
    (2 :> "No-Tumor") @@ (3 :> "Pituitary Tumor")

SEVERITY_MAPPING ==
    (0 :> "High Severity") @@ (1 :> "Low Severity") @@ (3 :> "Medium Severity")

\* dict.get(key, default)
ClassNameOf(class_id) ==
    IF class_id \in DOMAIN CLASS_NAMES THEN CLASS_NAMES[class_id] ELSE "Unknown Type"

SeverityOf(class_id) ==
    IF class_id \in DOMAIN SEVERITY_MAPPING THEN SEVERITY_MAPPING[class_id]
    ELSE "Unknown Severity"

----------------------------------------------------------------------------
(* Python values and string helpers *)

Absent == [kind |-> "absent", items |-> <<>>]   \* key not in user_data
PyNone == [kind |-> "none", items |-> <<>>]
PyList(s) == [kind |-> "list", items |-> s]

\* user_data.get('last_detected_tumors')
Get(v) == IF v.kind = "absent" THEN PyNone ELSE v

\* truth value of None / list
Truthy(v) == v.kind = "list" /\ Len(v.items) > 0

\* sep.join(parts), parts a sequence of strings (token sequences)
RECURSIVE Join(_, _)
Join(sep, parts) ==
    IF Len(parts) = 0 THEN <<>>
    ELSE IF Len(parts) = 1 THEN parts[1]
    ELSE parts[1] \o sep \o Join(sep, Tail(parts))

\* list(dict.fromkeys(s)): first occurrence of every element, in order
RECURSIVE FromKeys(_, _)
FromKeys(s, acc) ==
    IF Len(s) = 0 THEN acc
    ELSE FromKeys(Tail(s),
                  IF \E i \in 1..Len(acc) : acc[i] = Head(s) THEN acc
                  ELSE Append(acc, Head(s)))

DictFromKeys(s) == FromKeys(s, <<>>)

\* f"{class_name} ({severity})"
FormatFinding(class_name, severity) == <<class_name, " (", severity, ")">>

----------------------------------------------------------------------------
(* handle_image, lines 107-141: interpretation of the detections *)

\* lines 114-123: the loop over result.boxes
RECURSIVE LoopBoxes(_, _)
LoopBoxes(bs, acc) ==
    IF Len(bs) = 0 THEN acc
    ELSE LET class_id == Head(bs)
             class_name == ClassNameOf(class_id)
         IN  LoopBoxes(Tail(bs),
                 IF class_name = "No-Tumor"
                 THEN [acc EXCEPT !.no_tumor = TRUE]
                 ELSE [acc EXCEPT
                         !.tumors = Append(@, FormatFinding(class_name, SeverityOf(class_id))),
                         !.names = Append(@, class_name)])

\* lines 126-127 dropped: the lists keep their repeats
InterpretNoDedup(bs) ==
    LET r == LoopBoxes(bs, [tumors |-> <<>>, names |-> <<>>, no_tumor |-> FALSE])
    IN  [tumors |-> r.tumors, names |-> r.names, no_tumor |-> r.no_tumor]

\* lines 108-127: the three locals after the loop and the removal of duplicates
Interpret(bs) ==
    LET r == LoopBoxes(bs, [tumors |-> <<>>, names |-> <<>>, no_tumor |-> FALSE])
    IN  [tumors |-> DictFromKeys(r.tumors), names |-> DictFromKeys(r.names),
         no_tumor |-> r.no_tumor]

\* line 134: one bullet line per finding, joined by newlines
FindingsText(tumors) ==
    Join(<<"\n">>, [i \in 1..Len(tumors) |-> <<"* ">> \o tumors[i]])

NoTumorCaption == <<"Analysis complete. The scan indicates no tumor was found.">>
NothingCaption ==
    <<"Analysis complete. I did not detect any of the conditions I'm trained to recognize in this scan.">>
CaptionHead == <<"**Analysis Complete.**\n\nPotential findings:\n">>
CaptionFoot == <<"\n\nYou can now ask me questions for more information.">>

\* the elif of line 136 is taken before the if of line 133
CaptionNoTumorFirst(tumors, no_tumor) ==
    IF no_tumor THEN NoTumorCaption
    ELSE IF Len(tumors) > 0 THEN CaptionHead \o FindingsText(tumors) \o CaptionFoot
    ELSE NothingCaption

\* lines 133-141: caption_text
Caption(tumors, no_tumor) ==
    IF Len(tumors) > 0 THEN CaptionHead \o FindingsText(tumors) \o CaptionFoot
    ELSE IF no_tumor THEN NoTumorCaption
    ELSE NothingCaption

\* lines 138 and 141 dropped: the empty list of line 130 stays, and a list
\* is stored only when the scan had no 'No-Tumor' box
StoredKeepsOld(old, tumors, names, no_tumor) ==
    IF Len(tumors) > 0 /\ ~no_tumor THEN PyList(names) ELSE old

\* lines 130, 138, 141: the value of user_data['last_detected_tumors'] after
\* the analysis (the assignment of line 130 and the None of the two branches
\* happen with no await between them)
Stored(old, tumors, names, no_tumor) ==
    IF Len(tumors) > 0 THEN PyList(names) ELSE PyNone

----------------------------------------------------------------------------
(* Message texts *)

AckMsg == <<"Scan received. Analyzing...">>
RetryMsg ==
    <<"Sorry, I encountered an error during the analysis. Please try sending the scan again.">>
ThinkingMsg == <<"Consulting knowledge base...">>
WelcomeMsg == <<"Hello, ", "user_name", "! I am the Brain Tumor Detection Bot.">>
HelpMsg == <<"**How to use me:** 1. Analysis 2. Follow-up">>

\* line 171
disclaimer ==
    <<"\n\n**Important Disclaimer:** I am an AI assistant, not a medical professional. This information is for educational purposes only. Please consult a qualified doctor for diagnosis and medical advice.">>

FallbackText ==
    <<"I'm having trouble accessing my knowledge base right now. Please try again later.">>

\* line 182 without the disclaimer
ErrorMessageBare == FallbackText

\* line 182: error_message
ErrorMessage == FallbackText \o disclaimer

\* line 175 without the disclaimer
BotAnswerBare(text) == text

\* line 175: bot_answer
BotAnswer(text) == text \o disclaimer

GenericContext == <<"A user is asking a general question about brain tumors.">>

\* lines 161-165 with the branch on last_tumors dropped
PromptContextGeneric(last_tumors) == GenericContext

\* lines 161-165: prompt_context
PromptContext(last_tumors) ==
    IF Truthy(last_tumors)
    THEN <<"A user's brain scan analysis has indicated a potential '">>
         \o Join(<<", ">>, [i \in 1..Len(last_tumors.items) |-> <<last_tumors.items[i]>>])
         \o <<"'. The user is now asking a follow-up question.">>
    ELSE GenericContext

PromptHead == <<"You are a helpful medical information AI. ">>
PromptInstr ==
    <<" Answer their question in a clear, simple, and reassuring tone. Provide general information only.\n\nUser's Question: '">>

\* lines 167-169: prompt
BuildPrompt(last_tumors, user_question) ==
    PromptHead \o PromptContext(last_tumors) \o PromptInstr \o <<user_question, "'">>

----------------------------------------------------------------------------
(* Process start, lines 45-62 and 185-202 *)

Envs == [token : BOOLEAN, key : {"missing", "invalid", "valid"}, weights : BOOLEAN]

\* lines 54-55 dropped: the key is not looked at
InitFailsNoKeyCheck(e) == ~e.weights

\* lines 46-62: the try block raises (and the except block calls exit())
\* when the weights file does not exist or GEMINI_API_KEY is empty or unset;
\* genai.configure and GenerativeModel make no request and accept any key
InitFails(e) == ~e.weights \/ e.key = "missing"

\* lines 187-189
MainReturns(e) == ~e.token

NoLabels == <<>>

IdleLocals ==
    /\ h' = "idle" /\ chat' = "none" /\ user' = "none" /\ pc' = "idle"
    /\ boxes' = <<>> /\ detected_tumors' = <<>> /\ names_for_chatbot' = <<>>
    /\ no_tumor_case_detected' = FALSE /\ caption_text' = <<>>
    /\ question' = "" /\ prompt' = <<>> /\ genOut' = "none" /\ genText' = <<>>
    /\ attempts' = 0 /\ failedAt' = "none" /\ pre' = Absent /\ reply' = <<>>
    /\ raised' = FALSE

Init ==
    /\ env \in Envs
    /\ phase = "load"
    /\ dispatched = FALSE
    /\ user_data = [u \in Users |-> Absent]
    /\ expected = [u \in Users |-> NoLabels]
    /\ lastByChat = [c \in Chats |-> NoLabels]
    /\ h = "idle" /\ chat = "none" /\ user = "none" /\ pc = "idle"
    /\ boxes = <<>> /\ detected_tumors = <<>> /\ names_for_chatbot = <<>>
    /\ no_tumor_case_detected = FALSE /\ caption_text = <<>>
    /\ question = "" /\ prompt = <<>> /\ genOut = "none" /\ genText = <<>>
    /\ attempts = 0 /\ failedAt = "none" /\ pre = Absent /\ reply = <<>>
    /\ raised = FALSE

\* module level, lines 45-62
LoadModels ==
    /\ phase = "load"
    /\ phase' = IF InitFails(env) THEN "exited" ELSE "main"
    /\ UNCHANGED << env, dispatched, user_data, h, chat, user, pc, boxes,
                    detected_tumors, names_for_chatbot, no_tumor_case_detected,
                    caption_text, question, prompt, genOut, genText, attempts,
                    failedAt, pre, reply, raised, expected, lastByChat >>

\* main(), lines 185-202
Main ==
    /\ phase = "main"
    /\ phase' = IF MainReturns(env) THEN "exited" ELSE "polling"
    /\ UNCHANGED << env, dispatched, user_data, h, chat, user, pc, boxes,
                    detected_tumors, names_for_chatbot, no_tumor_case_detected,
                    caption_text, question, prompt, genOut, genText, attempts,
                    failedAt, pre, reply, raised, expected, lastByChat >>

\* run_polling hands an update to the handler registered for it (lines 195-198)
Dispatch ==
    /\ phase = "polling" /\ h = "idle"
    /\ \E u \in Users, c \in Chats, k \in {"start", "help", "image", "text"},
          q \in Questions :
        /\ c \in {u, Group}
        /\ h' = k /\ chat' = c /\ user' = u
        /\ pc' = CASE k = "start" -> "start_reply"
                   [] k = "help" -> "help_reply"
                   [] k = "image" -> "img_ack"
                   [] k = "text" -> "txt_think"
        /\ question' = IF k = "text" THEN q ELSE ""
        /\ pre' = user_data[u]
    /\ dispatched' = TRUE
    /\ UNCHANGED << env, phase, user_data, boxes, detected_tumors,
                    names_for_chatbot, no_tumor_case_detected, caption_text,
                    prompt, genOut, genText, attempts, failedAt, reply, raised,
                    expected, lastByChat >>

\* the handler returned or raised: the dispatcher waits for the next update
Finish ==
    /\ pc = "done"
    /\ IdleLocals
    /\ UNCHANGED << env, phase, dispatched, user_data, expected, lastByChat >>

----------------------------------------------------------------------------
(* start and help_command, lines 66-78 *)

\* lines 68-71
StartReply ==
    /\ h = "start" /\ pc = "start_reply"
    /\ \/ reply' = WelcomeMsg /\ raised' = FALSE
       \/ reply' = reply /\ raised' = TRUE
    /\ pc' = "done"
    /\ UNCHANGED << env, phase, dispatched, user_data, h, chat, user, boxes,
                    detected_tumors, names_for_chatbot, no_tumor_case_detected,
                    caption_text, question, prompt, genOut, genText, attempts,
                    failedAt, pre, expected, lastByChat >>

\* lines 75-78
HelpReply ==
    /\ h = "help" /\ pc = "help_reply"
    /\ \/ reply' = HelpMsg /\ raised' = FALSE
       \/ reply' = reply /\ raised' = TRUE
    /\ pc' = "done"
    /\ UNCHANGED << env, phase, dispatched, user_data, h, chat, user, boxes,
                    detected_tumors, names_for_chatbot, no_tumor_case_detected,
                    caption_text, question, prompt, genOut, genText, attempts,
                    failedAt, pre, expected, lastByChat >>

----------------------------------------------------------------------------
(* What an image analysis is said to record: the labels of the detections  *)
(* whose class id is not the reserved id 2, each label once, in order of   *)
(* first occurrence.  Written from the statement, not from the handler.    *)

ReservedId == 2

LabelOfId(id) ==
    CASE id = 0 -> "Glioma Tumor"
      [] id = 1 -> "Meningioma Tumor"
      [] id = 3 -> "Pituitary Tumor"
      [] OTHER -> "Unknown Type"

SeverityOfId(id) ==
    CASE id = 0 -> "High Severity"
      [] id = 1 -> "Low Severity"
      [] id = 3 -> "Medium Severity"
      [] OTHER -> "Unknown Severity"

\* the elements of s at the indices in I, in increasing order of index
Pick(s, I) ==
    [k \in 1..Cardinality(I) |->
        s[CHOOSE i \in I : Cardinality({j \in I : j <= i}) = k]]

\* s without the elements that occurred earlier in it
FirstOccurrences(s) ==
    Pick(s, {i \in 1..Len(s) : \A j \in 1..(i - 1) : s[j] # s[i]})

NonReserved(bs) == Pick(bs, {i \in 1..Len(bs) : bs[i] # ReservedId})

FindingSet(bs) ==
    LET nr == NonReserved(bs)
    IN  FirstOccurrences([i \in 1..Len(nr) |->
            [label |-> LabelOfId(nr[i]), severity |-> SeverityOfId(nr[i])]])

LabelsOf(fs) == [i \in 1..Len(fs) |-> fs[i].label]

HadNoAbnormality(bs) == \E i \in 1..Len(bs) : bs[i] = ReservedId

----------------------------------------------------------------------------
(* handle_image, lines 80-149 *)

\* line 130 hoisted before result.plot(): the names are stored as soon as
\* inference has returned
StoreAtEarly(stage, ud, u, bs) ==
    IF stage \in {"infer", "interpret"}
    THEN LET r == Interpret(bs)
         IN  [ud EXCEPT ![u] = Stored(ud[u], r.tumors, r.names, r.no_tumor)]
    ELSE ud

\* the names are kept in one module-level variable instead of user_data:
\* the write reaches every user's slot
StoreAtGlobal(stage, ud, u, bs) ==
    IF stage = "interpret"
    THEN LET r == Interpret(bs)
         IN  [v \in Users |-> Stored(ud[u], r.tumors, r.names, r.no_tumor)]
    ELSE ud

\* user_data after each statement group of the try block: lines 130-141 are
\* the only writes, and they come after download, decoding, inference and
\* rendering
StoreAt(stage, ud, u, bs) ==
    IF stage = "interpret"
    THEN LET r == Interpret(bs)
         IN  [ud EXCEPT ![u] = Stored(ud[u], r.tumors, r.names, r.no_tumor)]
    ELSE ud

\* line 84: context.bot.send_message
ImgAck ==
    /\ h = "image" /\ pc = "img_ack"
    /\ \/ reply' = AckMsg /\ pc' = "img_fetch" /\ failedAt' = failedAt
       \/ reply' = reply /\ pc' = "img_except" /\ failedAt' = "ack"
    /\ user_data' = StoreAt("ack", user_data, user, boxes)
    /\ UNCHANGED << procVars, whoVars, imgLocals, txtLocals, histVars, raised >>

\* lines 87-91: get_file, download_to_memory, Image.open
ImgFetch ==
    /\ h = "image" /\ pc = "img_fetch"
    /\ \/ pc' = "img_infer" /\ failedAt' = failedAt
       \/ pc' = "img_except" /\ failedAt' \in {"download", "decode"}
    /\ user_data' = StoreAt("fetch", user_data, user, boxes)
    /\ UNCHANGED << procVars, whoVars, imgLocals, txtLocals, histVars, reply, raised >>

\* lines 94-95: yolo_model(pil_image), results[0]; the detections are drawn
\* from the sequences over ids
Infer(ids) ==
    /\ h = "image" /\ pc = "img_infer"
    /\ \/ /\ boxes' \in SeqsUpTo(ids, MaxScanBoxes)
          /\ pc' = "img_render" /\ failedAt' = failedAt
       \/ /\ boxes' = boxes
          /\ pc' = "img_except" /\ failedAt' = "inference"
    /\ user_data' = StoreAt("infer", user_data, user, boxes')
    /\ UNCHANGED << procVars, whoVars, detected_tumors, names_for_chatbot,
                    no_tumor_case_detected, caption_text, txtLocals, histVars,
                    reply, raised >>

ImgInfer == Infer(ScanIds)

ImgInferInChat == Infer(ChatScanIds)

\* lines 98-105: result.plot(), Image.fromarray, save
ImgRender ==
    /\ h = "image" /\ pc = "img_render"
    /\ \/ pc' = "img_interpret" /\ failedAt' = failedAt
       \/ pc' = "img_except" /\ failedAt' = "render"
    /\ user_data' = StoreAt("render", user_data, user, boxes)
    /\ UNCHANGED << procVars, whoVars, imgLocals, txtLocals, histVars, reply, raised >>

\* lines 107-141: no await between them
Analyse ==
    /\ h = "image" /\ pc = "img_interpret"
    /\ LET r == Interpret(boxes)
       IN  /\ detected_tumors' = r.tumors
           /\ names_for_chatbot' = r.names
           /\ no_tumor_case_detected' = r.no_tumor
           /\ caption_text' = Caption(r.tumors, r.no_tumor)
    /\ user_data' = StoreAt("interpret", user_data, user, boxes)
    /\ expected' = [expected EXCEPT ![user] = LabelsOf(FindingSet(boxes))]
    /\ pc' = "img_reply"
    /\ UNCHANGED << procVars, whoVars, boxes, txtLocals, failedAt, reply, raised >>

ImgInterpret == Analyse /\ UNCHANGED lastByChat

\* the same step, with the per-chat history kept as well
ImgInterpretInChat ==
    Analyse /\ lastByChat' = [lastByChat EXCEPT ![chat] = LabelsOf(FindingSet(boxes))]

\* lines 143-145: reply_photo with the caption
ImgReplyPhoto ==
    /\ h = "image" /\ pc = "img_reply"
    /\ \/ reply' = caption_text /\ pc' = "done" /\ failedAt' = failedAt
       \/ reply' = reply /\ pc' = "img_except" /\ failedAt' = "reply"
    /\ UNCHANGED << procVars, whoVars, user_data, imgLocals, txtLocals, histVars,
                    raised >>

\* lines 147-149: the except block; its reply_text is outside any try
ImgExcept ==
    /\ h = "image" /\ pc = "img_except"
    /\ \/ reply' = RetryMsg /\ raised' = FALSE
       \/ reply' = reply /\ raised' = TRUE
    /\ pc' = "done"
    /\ UNCHANGED << procVars, whoVars, user_data, imgLocals, txtLocals, histVars,
                    failedAt >>

----------------------------------------------------------------------------
(* handle_text, lines 152-183 *)

\* line 157: send_message, before the try block
TxtThink ==
    /\ h = "text" /\ pc = "txt_think"
    /\ \/ reply' = ThinkingMsg /\ pc' = "txt_prompt" /\ raised' = FALSE
       \/ reply' = reply /\ pc' = "done" /\ raised' = TRUE
    /\ UNCHANGED << procVars, whoVars, user_data, imgLocals, txtLocals, histVars,
                    failedAt >>

\* lines 159-171
TxtPrompt ==
    /\ h = "text" /\ pc = "txt_prompt"
    /\ prompt' = BuildPrompt(Get(user_data[user]), question)
    /\ pc' = "txt_gen"
    /\ UNCHANGED << procVars, whoVars, user_data, imgLocals, question, genOut,
                    genText, attempts, histVars, failedAt, reply, raised >>

\* lines 174-175: generate_content raises, or returns a response whose .text
\* raises, or returns text; a key the service rejects makes every call raise
TxtGenerate ==
    /\ h = "text" /\ pc = "txt_gen"
    /\ attempts' = attempts + 1
    /\ \/ /\ genOut' = "raise" /\ genText' = genText /\ pc' = "txt_except"
       \/ /\ env.key = "valid"
          /\ genOut' = "notext" /\ genText' = genText /\ pc' = "txt_except"
       \/ /\ env.key = "valid"
          /\ genOut' = "text" /\ genText' \in GenTexts /\ pc' = "txt_edit"
    /\ UNCHANGED << procVars, whoVars, user_data, imgLocals, question, prompt,
                    histVars, failedAt, reply, raised >>

\* lines 177-178: edit_message_text, inside the try block
TxtEdit ==
    /\ h = "text" /\ pc = "txt_edit"
    /\ \/ reply' = BotAnswer(genText) /\ pc' = "done"
       \/ reply' = reply /\ pc' = "txt_except"
    /\ UNCHANGED << procVars, whoVars, user_data, imgLocals, txtLocals, histVars,
                    failedAt, raised >>

\* lines 180-183: the except block; its edit_message_text is outside any try
TxtExcept ==
    /\ h = "text" /\ pc = "txt_except"
    /\ \/ reply' = ErrorMessage /\ raised' = FALSE
       \/ reply' = reply /\ raised' = TRUE
    /\ pc' = "done"
    /\ UNCHANGED << procVars, whoVars, user_data, imgLocals, txtLocals, histVars,
                    failedAt >>

----------------------------------------------------------------------------
(* Specifications *)

Next ==
    \/ LoadModels \/ Main \/ Dispatch \/ Finish
    \/ StartReply \/ HelpReply
    \/ ImgAck \/ ImgFetch \/ ImgInfer \/ ImgRender \/ ImgInterpret
    \/ ImgReplyPhoto \/ ImgExcept
    \/ TxtThink \/ TxtPrompt \/ TxtGenerate \/ TxtEdit \/ TxtExcept

Spec == Init /\ [][Next]_vars

\* The same program with the history of analyses kept per chat too.
NextChats ==
    \/ LoadModels \/ Main \/ Dispatch \/ Finish
    \/ StartReply \/ HelpReply
    \/ ImgAck \/ ImgFetch \/ ImgInferInChat \/ ImgRender \/ ImgInterpretInChat
    \/ ImgReplyPhoto \/ ImgExcept
    \/ TxtThink \/ TxtPrompt \/ TxtGenerate \/ TxtEdit \/ TxtExcept

SpecChats == Init /\ [][NextChats]_vars

\* The interpretation step on every detection sequence up to MaxBoxes over
\* ClassIds: a running bot has received an image from some user, inference
\* and rendering have returned, and the user's slot is empty or holds the
\* labels of an earlier analysis.
InitInterpret ==
    /\ env = [token |-> TRUE, key |-> "valid", weights |-> TRUE]
    /\ phase = "polling"
    /\ dispatched = TRUE
    /\ \E prior \in {<<>>, <<"Pituitary Tumor">>, <<"Glioma Tumor", "Unknown Type">>} :
        /\ user_data = [u \in Users |-> IF prior = <<>> THEN Absent ELSE PyList(prior)]
        /\ expected = [u \in Users |-> prior]
        /\ lastByChat = [c \in Chats |-> prior]
    /\ h = "image" /\ user \in Users /\ chat = user /\ pc = "img_interpret"
    /\ pre = user_data[user]
    /\ boxes \in SeqsUpTo(ClassIds, MaxBoxes)
    /\ detected_tumors = <<>> /\ names_for_chatbot = <<>>
    /\ no_tumor_case_detected = FALSE /\ caption_text = <<>>
    /\ question = "" /\ prompt = <<>> /\ genOut = "none" /\ genText = <<>>
    /\ attempts = 0 /\ failedAt = "none" /\ reply = AckMsg
    /\ raised = FALSE

NextInterpret == ImgInterpret \/ ImgReplyPhoto \/ ImgExcept

SpecInterpret == InitInterpret /\ [][NextInterpret]_vars

----------------------------------------------------------------------------
(* Properties *)

EndsWith(s, suffix) ==
    /\ Len(s) >= Len(suffix)
    /\ SubSeq(s, Len(s) - Len(suffix) + 1, Len(s)) = suffix

\* what a read of the slot yields, None and a missing key being empty
Findings(v) == IF Truthy(Get(v)) THEN v.items ELSE <<>>

\* the labels separated by ", "
CommaJoined(labels) ==
    [k \in 1..(2 * Len(labels) - 1) |->
        IF k % 2 = 1 THEN labels[(k + 1) \div 2] ELSE ", "]

\* the prompt a question gets when the conversation state holds labels
PromptFor(labels, q) ==
    PromptHead
    \o (IF Len(labels) = 0 THEN GenericContext
        ELSE <<"A user's brain scan analysis has indicated a potential '">>
             \o CommaJoined(labels)
             \o <<"'. The user is now asking a follow-up question.">>)
    \o PromptInstr \o <<q, "'">>

\* one bullet line per finding, lines separated by a newline
ListedFindings(fs) ==
    [k \in 1..(6 * Len(fs) - 1) |->
        LET f == fs[((k - 1) \div 6) + 1]
            pos == (k - 1) % 6
        IN  CASE pos = 0 -> "* "
              [] pos = 1 -> f.label
              [] pos = 2 -> " ("
              [] pos = 3 -> f.severity
              [] pos = 4 -> ")"
              [] OTHER -> "\n"]

Interpreted == h = "image" /\ pc \in {"img_reply", "img_except", "done"}
                /\ failedAt \in {"none", "reply"}

PromptSent == h = "text" /\ (pc = "txt_gen" \/ attempts >= 1)

EarlyStages == {"download", "decode", "inference", "render"}

\* C1: in every state every user's last_detected_tumors, read as a list, is
\* the first-occurrence-ordered distinct labels of the non-reserved
\* detections of the most recent image analysis made for that slot (empty
\* when there was none or it had no finding): each analysis replaces it as
\* a whole and nothing else changes it.
C1_LastFindingsAreLatestAnalysis ==
    \A u \in Users : Findings(user_data[u]) = expected[u]

\* C1 witness: an analysis with a repeated unknown id has replaced the
\* labels of an earlier analysis.
C1_Witness ==
    /\ h = "image" /\ pc = "img_reply" /\ Truthy(pre)
    /\ boxes = <<4, 4>>
    /\ pre # user_data[user]
    /\ user_data[user] = PyList(<<"Unknown Type">>)

\* C2: the text handle_text puts in place of its placeholder ends in the
\* disclaimer, after a generation that returned and after one that failed.
C2_ReplyEndsInDisclaimer ==
    h = "text" =>
        /\ reply \in {<<>>, ThinkingMsg} \/ EndsWith(reply, disclaimer)
        /\ (pc = "done" /\ ~raised) => EndsWith(reply, disclaimer)

\* C2 witness: a text event of a user with findings whose generation call
\* raised has been answered.
C2_Witness ==
    /\ h = "text" /\ pc = "done" /\ ~raised /\ genOut = "raise"
    /\ Truthy(user_data[user]) /\ EndsWith(reply, disclaimer)

\* C3 as stated: after a failed generation call the handler ends normally,
\* having made one attempt and having replied with the fallback message
\* followed by the disclaimer.
C3_FallbackAndNormalCompletion ==
    (h = "text" /\ pc = "done" /\ genOut \in {"raise", "notext"}) =>
        /\ ~raised
        /\ attempts = 1
        /\ reply = FallbackText \o disclaimer

\* C4: after the interpretation step the flag is TRUE exactly when some
\* detection has class id 2; the displayed list and the stored names are
\* the distinct (label, severity) pairs and labels of the other detections
\* in order of first occurrence, unknown ids giving "Unknown Type" and
\* "Unknown Severity"; both lists have one entry per finding; and the
\* interpretation of the input without its repeated ids is the same.
C4_InterpretationIsFindingSet ==
    Interpreted =>
        LET fs == FindingSet(boxes)
        IN  /\ no_tumor_case_detected = HadNoAbnormality(boxes)
            /\ names_for_chatbot = LabelsOf(fs)
            /\ detected_tumors =
                 [i \in 1..Len(fs) |-> <<fs[i].label, " (", fs[i].severity, ")">>]
            /\ Len(detected_tumors) = Len(names_for_chatbot)
            /\ Interpret(FirstOccurrences(boxes)) =
                 [tumors |-> detected_tumors, names |-> names_for_chatbot,
                  no_tumor |-> no_tumor_case_detected]

\* C4 witness: two different unknown ids around the reserved id give one
\* "Unknown Type" finding and the flag.
C4_Witness ==
    /\ h = "image" /\ pc = "img_reply"
    /\ boxes = <<5, 2, 4>>
    /\ names_for_chatbot = <<"Unknown Type">>
    /\ no_tumor_case_detected

\* C5: caption and stored state follow from (FindingSet, flag) alone: with
\* findings the caption lists them and the state is their labels, also when
\* class 2 was detected; with none and the flag the caption is the
\* no-tumor message, with none and no flag the nothing-detected message,
\* and the state is empty in both; the photo reply carries that caption.
C5_CaptionAndStateFollowFindings ==
    Interpreted =>
        LET fs == FindingSet(boxes)
        IN  /\ IF Len(fs) > 0
               THEN /\ caption_text = CaptionHead \o ListedFindings(fs) \o CaptionFoot
                    /\ user_data[user] = PyList(LabelsOf(fs))
               ELSE /\ caption_text = IF HadNoAbnormality(boxes) THEN NoTumorCaption
                                                               ELSE NothingCaption
                    /\ Findings(user_data[user]) = <<>>
            /\ (pc = "done" /\ failedAt = "none") => reply = caption_text

\* C5 witness: a scan with a finding and the reserved class has been
\* answered, over an earlier state.
C5_Witness ==
    /\ h = "image" /\ pc = "done" /\ failedAt = "none"
    /\ HadNoAbnormality(boxes) /\ Len(detected_tumors) = 2
    /\ Truthy(pre) /\ reply = caption_text

\* C6 as stated: a text event in a chat is answered from what the most
\* recent image analysis in that chat recorded, whoever sent the events.
C6_TextReadsItsChatsAnalysis ==
    PromptSent => prompt = PromptFor(lastByChat[chat], question)

\* C6 amended: the state is partitioned by user.  A user's slot changes
\* only in a step of an image handler run for that user, whatever the chat,
\* and a text event is answered from what the most recent image analysis
\* of its own user recorded, in whichever chat that image was sent.
C6_StateIsPartitionedByUser ==
    /\ [][\A v \in Users :
            user_data'[v] # user_data[v] => (h = "image" /\ user = v)]_vars
    /\ [](PromptSent => prompt = PromptFor(expected[user], question))

\* C6 witness: u2 asks in the group after u1's scan in the group had a
\* finding, and u2's prompt is the generic one.
C6_Witness ==
    /\ PromptSent /\ user = "u2" /\ chat = Group
    /\ lastByChat[Group] = <<"Glioma Tumor">>
    /\ expected["u1"] = <<"Glioma Tumor">>
    /\ expected["u2"] = <<>>
    /\ prompt = PromptFor(<<>>, question)

\* C7: when download, decoding, inference or rendering raised, control is
\* in the except block or past it, the user's last_detected_tumors is what
\* it was when the image arrived, and the message delivered by the except
\* block is the retry suggestion.
C7_EarlyFailureLeavesState ==
    (h = "image" /\ failedAt \in EarlyStages) =>
        /\ pc \in {"img_except", "done"}
        /\ user_data[user] = pre
        /\ (pc = "done" /\ ~raised) => reply = RetryMsg

\* C7 witness: rendering raised after inference had found an unknown class
\* for a user whose state holds other labels, and the retry message went out.
C7_Witness ==
    /\ h = "image" /\ pc = "done" /\ ~raised /\ failedAt = "render"
    /\ boxes = <<4>> /\ pre = PyList(<<"Glioma Tumor">>)
    /\ reply = RetryMsg

\* C8: the prompt given to the generation call is the fixed head, the
\* preamble for the labels of the user's most recent image analysis (the
\* generic one when there are none), the instruction and the literal
\* question.
C8_PromptFollowsState ==
    PromptSent => prompt = PromptFor(expected[user], question)

\* C8 witness: a question is sent for a user whose last analysis had two
\* findings.
C8_Witness ==
    /\ PromptSent /\ attempts = 1
    /\ expected[user] = <<"Meningioma Tumor", "Glioma Tumor">>

\* C9 as stated: with the token missing, the API key missing or invalid, or
\* the weights missing, no update is ever dispatched.
C9_NoServiceAfterBadStart ==
    (~env.token \/ env.key \in {"missing", "invalid"} \/ ~env.weights) =>
        (~dispatched /\ phase # "polling")

\* C9 amended: with the token missing, the API key missing, or the weights
\* missing, the process never polls and no update is ever dispatched.
C9_NoServiceAfterMissingConfig ==
    (~env.token \/ env.key = "missing" \/ ~env.weights) =>
        (~dispatched /\ h = "idle" /\ phase \in {"load", "main", "exited"})

\* C9 witness: the process has exited because only the API key is missing.
C9_Witness ==
    /\ phase = "exited" /\ env.key = "missing" /\ env.token /\ env.weights
    /\ ~dispatched

\* C10 as stated: the fallback message is delivered only when the
\* generation call failed.
C10_FallbackOnlyAfterFailedGeneration ==
    (h = "text" /\ reply = ErrorMessage) => genOut # "text"

====
